---- MODULE Spec2Model ----
(***************************************************************************)
(* ICEcale: the video upscaling pipeline of src/src/main.cpp.              *)
(*                                                                         *)
(* Strings are sequences of one-character strings, so that parsing,        *)
(* splitting and formatting are computed character by character.          *)
(* Decimal values (double) are exact rationals <<num, den>> with den > 0.  *)
(***************************************************************************)
EXTENDS Integers, Sequences, FiniteSets, TLC

VARIABLES
    pc,          \* position of main(): the call it is at, or "done"
    toolIdx,     \* index of the tool findTool / requireCommand is at (1..3)
    inflight,    \* external processes started by popen and not yet closed
    calls,       \* every external invocation made so far, in order, with its outcome
    fsLog,       \* file-system writes made by the program itself (create_directories)
    workspace,   \* TRUE iff the icecale-work directory exists
    audioFile,   \* audio.mka: "absent", "empty" or "nonempty"
    framesRaw,   \* frame numbers present in frames_raw
    framesUp,    \* frame numbers present in frames_upscaled
    input,       \* the input video: [frames, audio]
    metadata,    \* VideoMetadata returned by probeVideo
    hasAudio,    \* main's local hasAudio
    frames,      \* upscaleFrames' sorted vector of frames
    idx,         \* upscaleFrames' position in frames (frames already handled)
    total,       \* upscaleFrames' local total
    processed,   \* upscaleFrames' local processed
    progress,    \* the (completed, total) pairs printed by printProgress, in order
    assembleCmd, \* the arguments of the assembly command line
    exitCode,    \* main's return value, -1 while running
    errMsg,      \* what main printed on the error stream
    fn,          \* pure-function harness: the function under test
    arg,         \* pure-function harness: its argument
    ret,         \* pure-function harness: its result
    applied      \* pure-function harness: TRUE once the function was applied

pipeVars == <<pc, toolIdx, inflight, calls, fsLog, workspace, audioFile, framesRaw,
              framesUp, input, metadata, hasAudio, frames, idx, total, processed,
              progress, assembleCmd, exitCode, errMsg>>
fnVars == <<fn, arg, ret, applied>>
fsV == <<fsLog, workspace, audioFile, framesRaw, framesUp>>
loopV == <<frames, idx, total, processed, progress>>
mainV == <<toolIdx, input, metadata, hasAudio, assembleCmd>>
vars == <<pc, toolIdx, inflight, calls, fsLog, workspace, audioFile, framesRaw,
          framesUp, input, metadata, hasAudio, frames, idx, total, processed,
          progress, assembleCmd, exitCode, errMsg, fn, arg, ret, applied>>

(***************************************************************************)
(* Bounds                                                                  *)
(***************************************************************************)
MaxFrames == 3
MaxStale == 2
MaxNum == 3
MaxCount == 2
MaxHalf == 3
MaxSmallDim == 4
CapMargin == 2
MaxDir == 3

(***************************************************************************)
(* Arithmetic helpers                                                      *)
(***************************************************************************)
Min(a, b) == IF a <= b THEN a ELSE b
Max(a, b) == IF a >= b THEN a ELSE b
Abs(a) == IF a < 0 THEN -a ELSE a

RECURSIVE Pow10(_)
Pow10(k) == IF k = 0 THEN 1 ELSE 10 * Pow10(k - 1)

\* rationals <<n, d>>, d > 0
RZero == <<0, 1>>
RMul(a, b) == <<a[1] * b[1], a[2] * b[2]>>
RAdd(a, b) == <<a[1] * b[2] + b[1] * a[2], a[2] * b[2]>>
RDiv(a, b) == IF b[1] > 0 THEN <<a[1] * b[2], a[2] * b[1]>>
                          ELSE <<-(a[1] * b[2]), -(a[2] * b[1])>>
REq(a, b) == a[1] * b[2] = b[1] * a[2]
RPos(a) == a[1] > 0
\* conversion of a double to an integer type: truncation toward zero
RTrunc(a) == IF a[1] >= 0 THEN a[1] \div a[2] ELSE -((-a[1]) \div a[2])

(***************************************************************************)
(* Strings                                                                 *)
(***************************************************************************)
DigitChars == <<"0", "1", "2", "3", "4", "5", "6", "7", "8", "9">>
IsDigit(c) == \E i \in 1..10 : DigitChars[i] = c
DigitVal(c) == (CHOOSE i \in 1..10 : DigitChars[i] = c) - 1

NA == <<"N", "/", "A">>

\* std::string::find(ch): first position of ch, 0 for npos
RECURSIVE FindFrom(_, _, _)
FindFrom(s, ch, i) ==
    IF i > Len(s) THEN 0
    ELSE IF s[i] = ch THEN i
    ELSE FindFrom(s, ch, i + 1)
Find(s, ch) == FindFrom(s, ch, 1)

\* number of consecutive digits of s starting at position i
RECURSIVE DigitRun(_, _)
DigitRun(s, i) ==
    IF i <= Len(s) /\ IsDigit(s[i]) THEN 1 + DigitRun(s, i + 1) ELSE 0

RECURSIVE DigitsValue(_)
DigitsValue(s) ==
    IF s = <<>> THEN 0
    ELSE 10 * DigitsValue(SubSeq(s, 1, Len(s) - 1)) + DigitVal(s[Len(s)])

\* std::to_string / operator<< of an integer
RECURSIVE FmtNat(_)
FmtNat(n) == IF n < 10 THEN <<DigitChars[n + 1]>>
             ELSE FmtNat(n \div 10) \o <<DigitChars[(n % 10) + 1]>>
FmtInt(n) == IF n < 0 THEN <<"-">> \o FmtNat(-n) ELSE FmtNat(n)

RECURSIVE Join(_, _)
Join(toks, sep) ==
    IF toks = <<>> THEN <<>>
    ELSE IF Len(toks) = 1 THEN toks[1]
    ELSE toks[1] \o <<sep>> \o Join(Tail(toks), sep)

Thrown(what) == [ok |-> FALSE, val |-> 0, err |-> what]
Value(v) == [ok |-> TRUE, val |-> v, err |-> ""]

\* std::stoll: optional sign, then the longest run of digits; trailing text is
\* ignored; no digit at all throws std::invalid_argument
stoll(s) ==
    LET neg == Len(s) >= 1 /\ s[1] = "-"
        start == IF neg THEN 2 ELSE 1
        k == DigitRun(s, start)
        mag == DigitsValue(SubSeq(s, start, start + k - 1))
    IN IF k = 0 THEN Thrown("stoll")
       ELSE Value(IF neg THEN -mag ELSE mag)

\* std::stod: optional sign, digits, optional point and digits; trailing text is
\* ignored; no digit at all throws std::invalid_argument
stod(s) ==
    LET neg == Len(s) >= 1 /\ s[1] = "-"
        start == IF neg THEN 2 ELSE 1
        k1 == DigitRun(s, start)
        dot == start + k1 <= Len(s) /\ s[start + k1] = "."
        k2 == IF dot THEN DigitRun(s, start + k1 + 1) ELSE 0
        ip == DigitsValue(SubSeq(s, start, start + k1 - 1))
        fp == DigitsValue(SubSeq(s, start + k1 + 1, start + k1 + k2))
        mag == ip * Pow10(k2) + fp
    IN IF k1 + k2 = 0 THEN Thrown("stod")
       ELSE Value(<<IF neg THEN -mag ELSE mag, Pow10(k2)>>)

(***************************************************************************)
(* Metadata parsing                                                        *)
(***************************************************************************)
\* a zero check that never fires
zeroDenominatorNever(denominator) == FALSE

zeroDenominator(denominator) == denominator[1] = 0

parseFrameRate(value) ==
    IF value = <<>> THEN Value(RZero)
    ELSE LET slashPos == Find(value, "/") IN
         IF slashPos = 0 THEN stod(value)
         ELSE LET numerator == stod(SubSeq(value, 1, slashPos - 1))
                  denominator == stod(SubSeq(value, slashPos + 1, Len(value)))
              IN IF ~numerator.ok THEN numerator
                 ELSE IF ~denominator.ok THEN denominator
                 ELSE IF zeroDenominator(denominator.val) THEN Value(RZero)
                 ELSE Value(RDiv(numerator.val, denominator.val))

safeParseLong(token) ==
    IF token = NA \/ token = <<>> THEN Value(-1) ELSE stoll(token)

safeParseDouble(token) ==
    IF token = NA \/ token = <<>> THEN Value(RZero) ELSE stod(token)

\* std::getline(ss, item, ','): a trailing empty item is not produced
RECURSIVE splitCsvLine(_)
splitCsvLine(line) ==
    IF line = <<>> THEN <<>>
    ELSE LET p == Find(line, ",") IN
         IF p = 0 THEN <<line>>
         ELSE <<SubSeq(line, 1, p - 1)>> \o splitCsvLine(SubSeq(line, p + 1, Len(line)))

\* a resolution that prefers the container-declared count
resolveTotalFramesDeclaredFirst(nbReadFrames, nbFrames, duration, fps) ==
    IF nbFrames > 0 THEN nbFrames
    ELSE IF nbReadFrames > 0 THEN nbReadFrames
    ELSE IF RPos(duration) /\ RPos(fps)
         THEN RTrunc(RAdd(RMul(duration, fps), <<1, 2>>))
    ELSE 0

\* probeVideo, lines 222-230: the total-frame-count resolution
resolveTotalFrames(nbReadFrames, nbFrames, duration, fps) ==
    IF nbReadFrames > 0 THEN nbReadFrames
    ELSE IF nbFrames > 0 THEN nbFrames
    ELSE IF RPos(duration) /\ RPos(fps)
         THEN RTrunc(RAdd(RMul(duration, fps), <<1, 2>>))
    ELSE 0

NoMetadata ==
    [width |-> 0, height |-> 0, fps |-> RZero, fpsRaw |-> <<>>, duration |-> RZero,
     totalFrames |-> 0]

\* probeVideo on the collaborator's outcome (exit status, first output line)
probeVideo(exit, line) ==
    IF exit # 0 THEN Thrown("Failed to probe video metadata")
    ELSE LET tokens == splitCsvLine(line) IN
    IF Len(tokens) < 6 THEN Thrown("Unexpected ffprobe output")
    ELSE LET w == safeParseLong(tokens[1])
             h == safeParseLong(tokens[2])
             nbReadFrames == safeParseLong(tokens[3])
             nbFrames == safeParseLong(tokens[4])
             fps == parseFrameRate(tokens[5])
             duration == safeParseDouble(tokens[6])
         IN IF ~w.ok THEN w
            ELSE IF ~h.ok THEN h
            ELSE IF ~nbReadFrames.ok THEN nbReadFrames
            ELSE IF ~nbFrames.ok THEN nbFrames
            ELSE IF ~fps.ok THEN fps
            ELSE IF ~duration.ok THEN duration
            ELSE Value([width |-> w.val, height |-> h.val, fps |-> fps.val,
                        fpsRaw |-> tokens[5], duration |-> duration.val,
                        totalFrames |-> resolveTotalFrames(nbReadFrames.val, nbFrames.val,
                                                           duration.val, fps.val)])

(***************************************************************************)
(* The assembly scale filter (buildScaleFilter)                            *)
(*   scale='min(2560,iw)':'min(1440,ih)':force_original_aspect_ratio=decrease *)
(*   ,scale=trunc(iw/2)*2:trunc(ih/2)*2                                    *)
(***************************************************************************)
CapWidth == 2560
CapHeight == 1440

\* a * b / c rounded to the nearest integer, halves upward (a, b >= 0, c > 0)
Rescale(a, b, c) == (2 * a * b + c) \div (2 * c)

\* a first scale without force_original_aspect_ratio
scaleStage1NoAspect(iw, ih) == <<Min(CapWidth, iw), Min(CapHeight, ih)>>

\* first scale: the requested box min(2560,iw) x min(1440,ih), each side then
\* decreased as needed to keep the input's aspect ratio
scaleStage1(iw, ih) ==
    LET w == Min(CapWidth, iw)
        h == Min(CapHeight, ih)
        tmpW == Rescale(h, iw, ih)
        tmpH == Rescale(w, ih, iw)
    IN <<Min(tmpW, w), Min(tmpH, h)>>

\* second scale: trunc(iw/2)*2 : trunc(ih/2)*2
scaleStage2(iw, ih) == <<(iw \div 2) * 2, (ih \div 2) * 2>>

(***************************************************************************)
(* Frame files                                                             *)
(***************************************************************************)
FrameDigits == 8

\* a frame number written without padding (%d)
ZeroPadNone(s, width) == s

RECURSIVE ZeroPad(_, _)
ZeroPad(s, width) == IF Len(s) >= width THEN s ELSE ZeroPad(<<"0">> \o s, width)

\* the name ffmpeg gives frame n under the pattern frame_%08d.png
framePath(n) ==
    <<"f", "r", "a", "m", "e", "_">> \o ZeroPad(FmtNat(n), FrameDigits)
        \o <<".", "p", "n", "g">>

\* character codes, in increasing order, of the characters of frame names
CharOrder == <<".", "0", "1", "2", "3", "4", "5", "6", "7", "8", "9", "_",
               "a", "e", "f", "g", "m", "n", "p", "r">>
CharCode(c) == CHOOSE i \in 1..Len(CharOrder) : CharOrder[i] = c

\* operator< of two paths of the same directory: lexicographic on the names
RECURSIVE PathLess(_, _)
PathLess(a, b) ==
    IF b = <<>> THEN FALSE
    ELSE IF a = <<>> THEN TRUE
    ELSE IF CharCode(Head(a)) < CharCode(Head(b)) THEN TRUE
    ELSE IF CharCode(Head(a)) > CharCode(Head(b)) THEN FALSE
    ELSE PathLess(Tail(a), Tail(b))

\* std::sort(frames.begin(), frames.end()) on the enumerated regular files
RECURSIVE sortFrames(_)
sortFrames(S) ==
    IF S = {} THEN <<>>
    ELSE LET m == CHOOSE x \in S :
                     \A y \in S \ {x} : PathLess(framePath(x), framePath(y))
         IN <<m>> \o sortFrames(S \ {m})

(***************************************************************************)
(* The environment: what the collaborators may answer                      *)
(***************************************************************************)
ExitCodes == {0, 1}
LF == "\n"

\* nvidia-smi output: nothing, one empty line, one device name
GpuOutputs == {<<>>, <<LF>>, <<"G", "P", "U", LF>>}

\* first line of the ffprobe output
ProbeOutputs ==
    { Join(<<<<"8">>, <<"4">>, <<"3">>, <<"3">>, <<"3", "/", "1">>, <<"1">>>>, ","),
      Join(<<<<"8">>, <<"4">>, NA, NA, <<"5", "/", "2">>, <<"1">>>>, ","),
      Join(<<<<"8">>, <<"4">>, NA, <<"1">>, <<"3", "0">>, <<"1">>>>, ","),
      Join(<<<<"8">>, <<"4">>, NA, NA, <<>>, <<"1">>>>, ","),
      Join(<<<<"8">>, <<"4">>, NA, NA, <<"0", "/", "0">>, NA>>, ","),
      Join(<<<<"0">>, <<"4">>, <<"2">>, <<"2">>, <<"3", "/", "1">>, <<"1">>>>, ","),
      Join(<<NA, NA, <<"2">>, <<"2">>, <<"3", "/", "1">>, <<"1">>>>, ","),
      Join(<<<<"8">>, <<"4">>, <<"2">>, <<"2">>, NA, <<"1">>>>, ","),
      Join(<<<<"8">>, <<"4">>, <<"2">>, <<"2">>, <<"3", "/", "1">>, <<>>>>, ","),
      Join(<<<<"8">>, <<"4">>, <<"2">>>>, ","),
      <<>> }

ToolNames == <<"ffmpeg", "ffprobe", "realesrgan-ncnn-vulkan">>

(***************************************************************************)
(* Building blocks of the actions                                          *)
(***************************************************************************)
NoError == [what |-> "", frame |-> 0]
NoCommand == [framerate |-> <<>>, inputs |-> <<>>, maps |-> <<>>, audioCopy |-> FALSE,
              filter |-> FALSE]

\* main's catch block: print the message, return 1
Fail(what, frame) ==
    /\ pc' = "done"
    /\ exitCode' = 1
    /\ errMsg' = [what |-> what, frame |-> frame]

Goto(p) ==
    /\ pc' = p
    /\ UNCHANGED <<exitCode, errMsg>>

\* a launch that does not block main(): the next call is made at once
PopenNoWait(kind, a, waitPc) ==
    /\ calls' = Append(calls, [kind |-> kind, arg |-> a, exit |-> -1, out |-> <<>>])
    /\ inflight' = inflight \cup {Len(calls) + 1}
    /\ Goto(pc)

\* runCommand, first half: popen starts the process, or fails and throws
Popen(kind, a, waitPc) ==
    \E opened \in BOOLEAN :
        IF opened
        THEN /\ calls' = Append(calls, [kind |-> kind, arg |-> a, exit |-> -1, out |-> <<>>])
             /\ inflight' = inflight \cup {Len(calls) + 1}
             /\ Goto(waitPc)
        ELSE /\ Fail("Failed to open pipe for command", 0)
             /\ UNCHANGED <<calls, inflight>>

\* runCommand, second half: read the output to its end, pclose
Pclose(exit, out) ==
    /\ calls' = [calls EXCEPT ![Len(calls)] = [@ EXCEPT !.exit = exit, !.out = out]]
    /\ inflight' = inflight \ {Len(calls)}

(***************************************************************************)
(* Initial state: main() entered, any workspace left by earlier runs      *)
(***************************************************************************)
\* what earlier runs can leave under the temporary directory: nothing, or a
\* workspace with frames 1..r extracted, frames 1..u of them upscaled, and
\* possibly an audio file
Workspaces ==
    {[workspace |-> FALSE, audioFile |-> "absent", raw |-> {}, up |-> {}]}
    \cup {[workspace |-> TRUE, audioFile |-> a, raw |-> 1..r, up |-> 1..u] :
            a \in {"absent", "empty", "nonempty"}, r \in 0..MaxStale, u \in 0..MaxStale}

PipeStart(w, in) ==
    /\ pc = "start"
    /\ toolIdx = 1
    /\ inflight = {}
    /\ calls = <<>>
    /\ fsLog = <<>>
    /\ workspace = w.workspace
    /\ audioFile = w.audioFile
    /\ framesRaw = w.raw
    /\ framesUp = w.up
    /\ input = in
    /\ metadata = NoMetadata
    /\ hasAudio = FALSE
    /\ frames = <<>>
    /\ idx = 0
    /\ total = 0
    /\ processed = 0
    /\ progress = <<>>
    /\ assembleCmd = NoCommand
    /\ exitCode = -1
    /\ errMsg = NoError

FnIdle ==
    /\ fn = "none"
    /\ arg = <<>>
    /\ ret = <<>>
    /\ applied = FALSE

Init ==
    /\ \E w \in Workspaces, n \in 0..MaxFrames, a \in BOOLEAN :
          /\ Cardinality(w.up) <= Cardinality(w.raw)
          /\ PipeStart(w, [frames |-> n, audio |-> a])
    /\ FnIdle

(***************************************************************************)
(* main(): argument and input checks                                       *)
(***************************************************************************)
Start ==
    /\ pc = "start"
    /\ \E argcOk \in BOOLEAN, inputExists \in BOOLEAN :
          IF ~argcOk THEN Fail("Usage: icecale <input_video> <output_video>", 0)
          ELSE IF ~inputExists THEN Fail("Input file does not exist", 0)
          ELSE Goto("gpu")
    /\ UNCHANGED <<calls, inflight, fsV, loopV, mainV, fnVars>>

(***************************************************************************)
(* Validate: requireNvidiaGpu, findTool x3, requireCommand x3              *)
(***************************************************************************)
\* a GPU check that looks at the output only
gpuDetectedAnyExit(exit, out) == out # <<>>

gpuDetected(exit, out) == ~(exit # 0 \/ out = <<>>)

GpuLaunch ==
    /\ pc = "gpu"
    /\ Popen("gpu", 0, "gpuWait")
    /\ UNCHANGED <<fsV, loopV, mainV, fnVars>>

GpuDone ==
    /\ pc = "gpuWait"
    /\ \E exit \in ExitCodes, out \in GpuOutputs :
          /\ Pclose(exit, out)
          /\ IF gpuDetected(exit, out)
             THEN Goto("findTool")
             ELSE Fail("No NVIDIA GPU detected", 0)
    /\ UNCHANGED <<fsV, loopV, mainV, fnVars>>

FindTool ==
    /\ pc = "findTool"
    /\ \E found \in BOOLEAN :
          IF ~found
          THEN Fail("Required tool not found in project folders", 0) /\ UNCHANGED toolIdx
          ELSE IF toolIdx < Len(ToolNames)
          THEN toolIdx' = toolIdx + 1 /\ Goto("findTool")
          ELSE toolIdx' = 1 /\ Goto("requireCommand")
    /\ UNCHANGED <<calls, inflight, fsV, loopV, input, metadata, hasAudio, assembleCmd,
                   fnVars>>

\* a tool check that ignores the exit status
commandAvailableAlways(exit) == TRUE

commandAvailable(exit) == exit = 0

RequireCommandLaunch ==
    /\ pc = "requireCommand"
    /\ Popen("requireCommand", toolIdx, "requireCommandWait")
    /\ UNCHANGED <<fsV, loopV, mainV, fnVars>>

RequireCommandDone ==
    /\ pc = "requireCommandWait"
    /\ \E exit \in ExitCodes :
          /\ Pclose(exit, <<>>)
          /\ IF ~commandAvailable(exit)
             THEN Fail("Required command is not available", 0) /\ UNCHANGED toolIdx
             ELSE IF toolIdx < Len(ToolNames)
             THEN toolIdx' = toolIdx + 1 /\ Goto("requireCommand")
             ELSE UNCHANGED toolIdx /\ Goto("probe")
    /\ UNCHANGED <<fsV, loopV, input, metadata, hasAudio, assembleCmd, fnVars>>

(***************************************************************************)
(* Probe                                                                   *)
(***************************************************************************)
ProbeLaunch ==
    /\ pc = "probe"
    /\ Popen("probe", 0, "probeWait")
    /\ UNCHANGED <<fsV, loopV, mainV, fnVars>>

ProbeDone ==
    /\ pc = "probeWait"
    /\ \E exit \in ExitCodes, line \in ProbeOutputs :
          LET r == probeVideo(exit, line) IN
          /\ Pclose(exit, line)
          /\ IF r.ok
             THEN metadata' = r.val /\ Goto("extractAudio")
             ELSE UNCHANGED metadata /\ Fail(r.err, 0)
    /\ UNCHANGED <<fsV, loopV, toolIdx, input, hasAudio, assembleCmd, fnVars>>

(***************************************************************************)
(* Split: extractAudio, extractFrames                                      *)
(***************************************************************************)
\* what ffmpeg -vn -acodec copy can do to audio.mka: it succeeds only when the
\* input has an audio stream and the workspace directory exists, and then the
\* file is non-empty; when it fails the file is left as it was, or truncated
AudioOutcomes ==
    {o \in [exit : ExitCodes, file : {"absent", "empty", "nonempty"}] :
        IF o.exit = 0
        THEN workspace /\ input.audio /\ o.file = "nonempty"
        ELSE o.file = audioFile \/ (workspace /\ o.file = "empty")}

\* fs::exists(audioFile) && fs::file_size(audioFile) > 0
audioPresent(file) == file # "absent" /\ file # "empty"

ExtractAudioLaunch ==
    /\ pc = "extractAudio"
    /\ Popen("extractAudio", 0, "extractAudioWait")
    /\ UNCHANGED <<fsV, loopV, mainV, fnVars>>

ExtractAudioDone ==
    /\ pc = "extractAudioWait"
    /\ \E o \in AudioOutcomes :
          /\ Pclose(o.exit, <<>>)
          /\ audioFile' = o.file
          /\ hasAudio' = audioPresent(o.file)
    /\ Goto("extractFrames")
    /\ UNCHANGED <<fsLog, workspace, framesRaw, framesUp, loopV, toolIdx, input,
                   metadata, assembleCmd, fnVars>>

\* ensureDirectory: fs::create_directories creates the missing parents too
ExtractFramesLaunch ==
    /\ pc = "extractFrames"
    /\ fsLog' = Append(fsLog, "frames_raw")
    /\ workspace' = TRUE
    /\ Popen("extractFrames", 0, "extractFramesWait")
    /\ UNCHANGED <<audioFile, framesRaw, framesUp, loopV, mainV, fnVars>>

\* ffmpeg writes frame_00000001.png .. frame_<n>.png over whatever is there;
\* when it fails it may have written some of them
ExtractFramesDone ==
    /\ pc = "extractFramesWait"
    /\ \E exit \in ExitCodes, k \in 0..input.frames :
          /\ exit = 0 => k = input.frames
          /\ Pclose(exit, <<>>)
          /\ framesRaw' = framesRaw \cup 1..k
          /\ IF exit # 0 THEN Fail("Failed to extract frames", 0) ELSE Goto("upscale")
    /\ UNCHANGED <<fsLog, workspace, audioFile, framesUp, loopV, mainV, fnVars>>

(***************************************************************************)
(* Upscale: upscaleFrames                                                  *)
(***************************************************************************)
\* a progress total that is always the number of enumerated files
progressTotalEnumerated(totalFrames, enumerated) == enumerated

progressTotal(totalFrames, enumerated) ==
    IF totalFrames > 0 THEN totalFrames ELSE enumerated

\* an upscale loop that ignores the exit status
upscaleFailedNever(exit) == FALSE

upscaleFailed(exit) == exit # 0

\* an emptiness check that never fires
framesEmptyNever(fr) == FALSE

\* frames.empty()
framesEmpty(fr) == fr = <<>>

\* a progress counter that is not advanced
nextProcessedStuck(p) == p

nextProcessed(p) == p + 1

\* ensureDirectory(outputDir), enumerate the regular files, sort, reject an
\* empty list, fix the progress total
UpscaleBegin ==
    /\ pc = "upscale"
    /\ fsLog' = Append(fsLog, "frames_upscaled")
    /\ frames' = sortFrames(framesRaw)
    /\ IF framesEmpty(frames')
       THEN Fail("No frames found to upscale.", 0) /\ UNCHANGED total
       ELSE total' = progressTotal(metadata.totalFrames, Len(frames'))
            /\ Goto("upscaleLoop")
    /\ processed' = 0
    /\ idx' = 0
    /\ UNCHANGED <<calls, inflight, workspace, audioFile, framesRaw, framesUp, progress,
                   mainV, fnVars>>

UpscaleLaunch ==
    /\ pc = "upscaleLoop"
    /\ idx < Len(frames)
    /\ Popen("upscale", frames[idx + 1], "upscaleWait")
    /\ UNCHANGED <<fsV, loopV, mainV, fnVars>>

\* the upscaler writes frames_upscaled/<same name>; a failed run may or may
\* not have written it
UpscaleDone ==
    /\ pc = "upscaleWait"
    /\ \E exit \in ExitCodes, written \in BOOLEAN :
          /\ exit = 0 => written
          /\ Pclose(exit, <<>>)
          /\ framesUp' = IF written THEN framesUp \cup {frames[idx + 1]} ELSE framesUp
          /\ IF upscaleFailed(exit)
             THEN /\ Fail("Real-ESRGAN failed on frame", frames[idx + 1])
                  /\ UNCHANGED <<idx, processed, progress>>
             ELSE /\ processed' = nextProcessed(processed)
                  /\ progress' = Append(progress, [completed |-> processed', total |-> total])
                  /\ idx' = idx + 1
                  /\ Goto(IF idx + 1 = Len(frames) THEN "assemble" ELSE "upscaleLoop")
    /\ UNCHANGED <<fsLog, workspace, audioFile, framesRaw, frames, total, mainV, fnVars>>

(***************************************************************************)
(* Assemble: assembleVideo                                                 *)
(***************************************************************************)
\* an assembly that always declares the default frame rate
assembleVideoCmdDefaultRate(fpsRaw, audio) ==
    [framerate |-> <<"3", "0">>,
     inputs |-> IF audio THEN <<"frames_upscaled/frame_%08d.png", "audio.mka">>
                         ELSE <<"frames_upscaled/frame_%08d.png">>,
     maps |-> IF audio THEN <<"0:v:0", "1:a:0">> ELSE <<"0:v:0">>,
     audioCopy |-> audio,
     filter |-> TRUE]

assembleVideoCmd(fpsRaw, audio) ==
    [framerate |-> IF fpsRaw = <<>> THEN <<"3", "0">> ELSE fpsRaw,
     inputs |-> IF audio THEN <<"frames_upscaled/frame_%08d.png", "audio.mka">>
                         ELSE <<"frames_upscaled/frame_%08d.png">>,
     maps |-> IF audio THEN <<"0:v:0", "1:a:0">> ELSE <<"0:v:0">>,
     audioCopy |-> audio,
     filter |-> TRUE]

AssembleLaunch ==
    /\ pc = "assemble"
    /\ assembleCmd' = assembleVideoCmd(metadata.fpsRaw, hasAudio)
    /\ Popen("assemble", 0, "assembleWait")
    /\ UNCHANGED <<fsV, loopV, toolIdx, input, metadata, hasAudio, fnVars>>

AssembleDone ==
    /\ pc = "assembleWait"
    /\ \E exit \in ExitCodes :
          /\ Pclose(exit, <<>>)
          /\ IF exit # 0
             THEN Fail("Failed to assemble video", 0)
             ELSE pc' = "done" /\ exitCode' = 0 /\ UNCHANGED errMsg
    /\ UNCHANGED <<fsV, loopV, mainV, fnVars>>

Next ==
    \/ Start
    \/ GpuLaunch
    \/ GpuDone
    \/ FindTool
    \/ RequireCommandLaunch
    \/ RequireCommandDone
    \/ ProbeLaunch
    \/ ProbeDone
    \/ ExtractAudioLaunch
    \/ ExtractAudioDone
    \/ ExtractFramesLaunch
    \/ ExtractFramesDone
    \/ UpscaleBegin
    \/ UpscaleLaunch
    \/ UpscaleDone
    \/ AssembleLaunch
    \/ AssembleDone

Spec == Init /\ [][Next]_vars

(***************************************************************************)
(* Properties of the pipeline                                              *)
(***************************************************************************)
CallIds == 1..Len(calls)
UpscaleCallsUpTo(i) == {j \in 1..i : calls[j].kind = "upscale"}

\* position of an invocation in Validate -> Probe -> Split -> Upscale -> Assemble
StageRank(c) ==
    CASE c.kind = "gpu" -> 1
      [] c.kind = "requireCommand" -> 1 + c.arg
      [] c.kind = "probe" -> 5
      [] c.kind = "extractAudio" -> 6
      [] c.kind = "extractFrames" -> 7
      [] c.kind = "upscale" -> 8
      [] c.kind = "assemble" -> 9

\* C1: external invocations occur only in the order GPU query, tool checks,
\* probe, audio extraction, frame extraction, one upscale per frame, assembly;
\* an invocation is made only after every earlier stage has run and every
\* earlier invocation has terminated, successfully unless it is the audio
\* extraction; and at most one external process is in flight at any time.
C1_StageOrder ==
    /\ Cardinality(inflight) <= 1
    /\ \A j \in CallIds :
          /\ \A r \in 1..(Min(StageRank(calls[j]), 8) - 1) :
                \E i \in 1..(j - 1) : StageRank(calls[i]) = r
          /\ \A i \in 1..(j - 1) :
                /\ StageRank(calls[i]) <= StageRank(calls[j])
                /\ StageRank(calls[i]) = StageRank(calls[j]) => calls[j].kind = "upscale"
                /\ calls[i].exit # -1
                /\ calls[i].exit = 0 \/ calls[i].kind = "extractAudio"
          /\ calls[j].kind = "upscale" =>
                calls[j].arg = frames[Cardinality(UpscaleCallsUpTo(j))]
          /\ calls[j].kind = "assemble" =>
                /\ Len(frames) >= 1
                /\ Cardinality(UpscaleCallsUpTo(j)) = Len(frames)

\* a complete successful run over several frames whose audio extraction failed
C1_Witness ==
    /\ pc = "done"
    /\ exitCode = 0
    /\ Cardinality(UpscaleCallsUpTo(Len(calls))) >= 2
    /\ \E i \in CallIds : calls[i].kind = "extractAudio" /\ calls[i].exit = 1

Succeeded(kind, a) ==
    \E i \in CallIds : calls[i].kind = kind /\ calls[i].arg = a /\ calls[i].exit = 0

\* an invocation whose failure the claim calls fatal
FatalFailure(c) ==
    \/ c.kind # "extractAudio" /\ c.exit = 1
    \/ c.kind = "gpu" /\ c.exit = 0 /\ c.out = <<>>
    \/ c.kind = "probe" /\ c.exit = 0 /\ Len(splitCsvLine(c.out)) < 6

\* C2: the run exits with code 0 if and only if the GPU check, the three tool
\* checks, the probe, the frame extraction, every per-frame upscale and the
\* assembly all succeeded; a failure of any of them ends the run at once with
\* exit code 1, nothing is invoked after it and nothing is invoked twice; a
\* nonzero exit of the audio extraction alone lets the run continue.
C2_ExitCode ==
    /\ exitCode = 0 <=>
          /\ \E i \in CallIds : /\ calls[i].kind = "gpu"
                                /\ calls[i].exit = 0
                                /\ calls[i].out # <<>>
          /\ \A t \in 1..3 : Succeeded("requireCommand", t)
          /\ Succeeded("probe", 0)
          /\ Succeeded("extractFrames", 0)
          /\ Len(frames) >= 1
          /\ \A k \in 1..Len(frames) : Succeeded("upscale", frames[k])
          /\ \A i \in CallIds : calls[i].kind = "upscale" => calls[i].exit = 0
          /\ Succeeded("assemble", 0)
    /\ \A i \in CallIds :
          FatalFailure(calls[i]) => i = Len(calls) /\ pc = "done" /\ exitCode = 1
    /\ \A i \in CallIds, j \in CallIds :
          calls[i].kind = calls[j].kind /\ calls[i].arg = calls[j].arg => i = j
    /\ \A i \in CallIds :
          calls[i].kind = "extractAudio" /\ calls[i].exit = 1 /\ i = Len(calls) =>
              \/ pc = "extractFrames" /\ exitCode = -1
              \/ pc = "done" /\ errMsg.what = "Failed to open pipe for command"

\* a run that ended with exit code 0 although its audio extraction failed
C2_Witness ==
    /\ exitCode = 0
    /\ \E i \in CallIds : calls[i].kind = "extractAudio" /\ calls[i].exit = 1
    /\ \E i \in CallIds : calls[i].kind = "assemble" /\ calls[i].exit = 0

\* C3: when the GPU query exits nonzero the run ends with exit code 1, the
\* program has created no directory, and the GPU query is the only external
\* invocation ever made.
C3_GpuFailureAborts ==
    \A i \in CallIds :
        calls[i].kind = "gpu" /\ calls[i].exit = 1 =>
            /\ pc = "done"
            /\ exitCode = 1
            /\ errMsg.what = "No NVIDIA GPU detected"
            /\ fsLog = <<>>
            /\ Len(calls) = 1

\* the GPU query exited nonzero, with some output, on a machine without workspace
C3_Witness ==
    /\ Len(calls) = 1
    /\ calls[1].kind = "gpu"
    /\ calls[1].exit = 1
    /\ calls[1].out # <<>>
    /\ ~workspace
    /\ pc = "done"

\* C4: when the upscaler exits nonzero on frame k of the sorted frames, no
\* later frame is passed to the upscaler and the assembly is never invoked,
\* exactly k-1 progress reports were made (the last one, if any, with
\* completed = k-1), the error names frame k, and the run exits with code 1.
C4_UpscaleFailureAborts ==
    \A i \in CallIds :
        calls[i].kind = "upscale" /\ calls[i].exit = 1 =>
            LET k == Cardinality(UpscaleCallsUpTo(i)) IN
            /\ calls[i].arg = frames[k]
            /\ i = Len(calls)
            /\ Len(progress) = k - 1
            /\ k > 1 => progress[Len(progress)].completed = k - 1
            /\ errMsg = [what |-> "Real-ESRGAN failed on frame", frame |-> frames[k]]
            /\ exitCode = 1
            /\ pc = "done"

\* the upscaler failed on the second of at least three frames
C4_Witness ==
    /\ Len(frames) >= 3
    /\ Len(calls) >= 1
    /\ calls[Len(calls)].kind = "upscale"
    /\ calls[Len(calls)].exit = 1
    /\ calls[Len(calls)].arg = frames[2]
    /\ Len(progress) = 1

\* C5: the i-th progress report has completed = i, every report carries the
\* same total, there is one report per successfully upscaled frame, and once
\* the upscale stage has ended without a failure there are exactly as many
\* reports as enumerated frames.
C5_ProgressSequence ==
    /\ \A i \in 1..Len(progress) :
          /\ progress[i].completed = i
          /\ progress[i].total = progress[1].total
    /\ Len(progress) =
          Cardinality({j \in CallIds : calls[j].kind = "upscale" /\ calls[j].exit = 0})
    /\ pc \in {"assemble", "assembleWait"} \/ Succeeded("assemble", 0) =>
          Len(progress) = Len(frames)

\* the upscale stage ended without a failure after several frames
C5_Witness ==
    /\ pc = "assemble"
    /\ Len(frames) >= 3
    /\ Len(progress) = Len(frames)

\* C6: whenever the audio extraction of this run failed, the assembly
\* invocation has no audio input, no audio-copy argument and no -map argument.
C6_NoAudioNoMap ==
    \A i \in CallIds, j \in CallIds :
        calls[i].kind = "extractAudio" /\ calls[i].exit = 1 /\ calls[j].kind = "assemble" =>
            /\ Len(assembleCmd.inputs) = 1
            /\ ~assembleCmd.audioCopy
            /\ assembleCmd.maps = <<>>

\* C6, audio part alone, in a run whose probe gave a positive size and whose
\* frames are exactly the input's: after a failed audio extraction the
\* assembly invocation has no audio input and no audio-copy argument.
C6_NoAudioInput ==
    \A i \in CallIds, j \in CallIds :
        (calls[i].kind = "extractAudio" /\ calls[i].exit = 1
            /\ calls[j].kind = "assemble"
            /\ metadata.width > 0 /\ metadata.height > 0
            /\ framesRaw = 1..input.frames) =>
            /\ Len(assembleCmd.inputs) = 1
            /\ ~assembleCmd.audioCopy

(***************************************************************************)
(* Pure functions, applied to inputs drawn from bounded sets               *)
(***************************************************************************)
RatStr(n, d) == FmtInt(n) \o <<"/">> \o FmtInt(d)

FpsTokens ==
    {RatStr(n, d) : n \in (-MaxNum)..MaxNum, d \in (-MaxNum)..MaxNum}
    \cup {<<>>, NA, <<"2", "5">>, <<"2", ".", "5">>, <<"3", "/">>, <<"/", "3">>}

IntTokens == {<<>>, NA, <<"0">>, <<"7">>, <<"1", "2">>, <<"-", "4">>}
DoubleTokens == {<<>>, NA, <<"0">>, <<"2">>, <<"1", ".", "5">>, <<"0", ".", "2", "5">>}

Counts == (-1)..MaxCount
Durations == {<<k, 2>> : k \in (-1)..MaxHalf}
Rates == {<<n, d>> : n \in (-1)..MaxNum, d \in 1..2}

\* the six tokens of a probe line, each a number or an "unknown" marker
ProbeFields ==
    {<<w, h, c, d, r, t>> :
        w \in {<<>>, NA, <<"8">>}, h \in {<<>>, NA, <<"4">>},
        c \in {<<>>, NA, <<"5">>}, d \in {<<>>, NA, <<"6">>},
        r \in {<<>>, NA, <<"0", "/", "0">>, <<"5", "/", "2">>},
        t \in {<<>>, NA, <<"2">>, <<"1", ".", "5">>}}

Dims ==
    (1..MaxSmallDim)
    \cup ((CapHeight - CapMargin)..(CapHeight + CapMargin))
    \cup ((CapWidth - CapMargin)..(CapWidth + CapMargin))
    \cup {1000, 2160, 3840, 5120, 7680}

\* frame numbers on both sides of every change of digit count up to the width
FrameSamples ==
    {n \in {Pow10(k) + d : k \in 0..FrameDigits, d \in {-1, 0, 1}} :
        n >= 1 /\ n < Pow10(FrameDigits)}

\* the frame files a frames_raw directory may hold
FrameDirs == {S \in SUBSET FrameSamples : Cardinality(S) >= 1 /\ Cardinality(S) <= MaxDir}

InitFn ==
    /\ PipeStart([workspace |-> FALSE, audioFile |-> "absent", raw |-> {}, up |-> {}],
                 [frames |-> 0, audio |-> FALSE])
    /\ ret = <<>>
    /\ applied = FALSE
    /\ \/ fn = "parseFrameRate" /\ arg \in FpsTokens
       \/ fn = "safeParseLong" /\ arg \in IntTokens
       \/ fn = "safeParseDouble" /\ arg \in DoubleTokens
       \/ fn = "resolveTotalFrames" /\ arg \in Counts \X Counts \X Durations \X Rates
       \/ fn = "probeVideo" /\ arg \in ProbeFields
       \/ fn = "buildScaleFilter" /\ arg \in Dims \X Dims
       \/ fn = "sortFrames" /\ arg \in FrameDirs

Apply(name, result) ==
    /\ fn = name
    /\ ~applied
    /\ applied' = TRUE
    /\ ret' = result
    /\ UNCHANGED <<fn, arg, pipeVars>>

ApplyParseFrameRate == Apply("parseFrameRate", parseFrameRate(arg))

ApplySafeParseLong == Apply("safeParseLong", safeParseLong(arg))

ApplySafeParseDouble == Apply("safeParseDouble", safeParseDouble(arg))

ApplyResolveTotalFrames ==
    Apply("resolveTotalFrames", resolveTotalFrames(arg[1], arg[2], arg[3], arg[4]))

\* the collaborator exits zero and prints the six fields separated by commas
ApplyProbeVideo == Apply("probeVideo", probeVideo(0, Join(arg, ",")))

\* the two scale filters of buildScaleFilter, chained
ApplyBuildScaleFilter ==
    LET s1 == scaleStage1(arg[1], arg[2]) IN
    Apply("buildScaleFilter", [stage1 |-> s1, out |-> scaleStage2(s1[1], s1[2])])

\* the order in which upscaleFrames visits the files of a directory
ApplySortFrames == Apply("sortFrames", sortFrames(arg))

NextFn ==
    \/ ApplyParseFrameRate
    \/ ApplySafeParseLong
    \/ ApplySafeParseDouble
    \/ ApplyResolveTotalFrames
    \/ ApplyProbeVideo
    \/ ApplyBuildScaleFilter
    \/ ApplySortFrames

SpecFn == InitFn /\ [][NextFn]_vars

(***************************************************************************)
(* Properties of the pure functions                                        *)
(***************************************************************************)
\* the integer nearest to the positive rational q, a half rounding upward
RoundNearest(q) ==
    CHOOSE r \in 0..((q[1] \div q[2]) + 1) :
        /\ 2 * Abs(r * q[2] - q[1]) <= q[2]
        /\ 2 * Abs((r + 1) * q[2] - q[1]) > q[2]

\* C7: totalFrames is the counted value if positive, otherwise the declared
\* value if positive, otherwise round(duration x fps) if both are positive,
\* otherwise 0; it is never negative.
C7_TotalFramesPolicy ==
    applied /\ fn = "resolveTotalFrames" =>
        LET counted == arg[1]
            declared == arg[2]
            duration == arg[3]
            fps == arg[4]
        IN /\ ret = IF counted > 0 THEN counted
                    ELSE IF declared > 0 THEN declared
                    ELSE IF duration[1] > 0 /\ fps[1] > 0
                         THEN RoundNearest(RMul(duration, fps))
                    ELSE 0
           /\ ret >= 0

\* counts unknown, duration 1.5 s at 3 fps: 4.5 rounds to 5
C7_Witness ==
    /\ applied
    /\ fn = "resolveTotalFrames"
    /\ arg = <<-1, -1, <<3, 2>>, <<3, 1>>>>
    /\ ret = 5

Sentinel(token) == token = NA \/ token = <<>>

\* C8: a token equal to "N/A" or the empty string parses to 0 (integer fields)
\* or 0.0 (frame rate, duration) without an error, and a probe line whose
\* fields are numbers or such tokens is parsed to the end.
C8_SentinelParsesToZero ==
    applied =>
        /\ fn = "safeParseLong" /\ Sentinel(arg) => ret.ok /\ ret.val = 0
        /\ fn = "safeParseDouble" /\ Sentinel(arg) => ret.ok /\ REq(ret.val, RZero)
        /\ fn = "parseFrameRate" /\ Sentinel(arg) => ret.ok /\ REq(ret.val, RZero)
        /\ fn = "probeVideo" => ret.ok

\* C8, error part alone: a probe line whose frame-rate field is "N/A" and whose
\* other fields are numbers is parsed without an error.
C8_SentinelRateNoError ==
    applied /\ fn = "probeVideo" /\ arg[5] = NA
        /\ (\A k \in {1, 2, 3, 4, 6} : ~Sentinel(arg[k])) => ret.ok

\* C9: for the frame-rate string "n/d", the parsed value is n/d when d # 0 and
\* 0.0 when d = 0, and no error is raised.
C9_RationalFrameRate ==
    applied /\ fn = "parseFrameRate" =>
        \A n \in (-MaxNum)..MaxNum, d \in (-MaxNum)..MaxNum :
            arg = RatStr(n, d) =>
                /\ ret.ok
                /\ ret.val[2] > 0
                /\ IF d = 0 THEN ret.val[1] = 0
                   ELSE ret.val[1] * d = n * ret.val[2]

\* "3/0" was parsed
C9_Witness ==
    /\ applied
    /\ fn = "parseFrameRate"
    /\ arg = <<"3", "/", "0">>
    /\ ret.ok
    /\ ret.val = RZero

C11_SortIsTemporal ==
    applied /\ fn = "sortFrames" =>
        /\ Len(ret) = Cardinality(arg)
        /\ {ret[i] : i \in 1..Len(ret)} = arg
        /\ \A i \in 1..Len(ret), j \in 1..Len(ret) : i < j => ret[i] < ret[j]

\* frames 9, 10 and 99999999 were sorted
C11_Witness ==
    /\ applied
    /\ fn = "sortFrames"
    /\ arg = {9, 10, 99999999}
    /\ ret = <<9, 10, 99999999>>

\* C12: for every six-field line the metadata has width and height equal to
\* the third and fourth fields, the counted and declared frame values equal to
\* the first and second fields, fpsRaw equal to the fifth field verbatim and
\* duration equal to the sixth.  The code reads width, height, counted and
\* declared from the first four fields in that order, so this is violated.
C12_FieldOrder ==
    ( /\ applied
      /\ fn = "probeVideo"
      /\ \A i \in 1..6 : ~Sentinel(arg[i]) ) =>
        /\ ret.ok
        /\ ret.val.width = stoll(arg[3]).val
        /\ ret.val.height = stoll(arg[4]).val
        /\ ret.val.totalFrames =
               resolveTotalFrames(stoll(arg[1]).val, stoll(arg[2]).val,
                                  ret.val.duration, ret.val.fps)
        /\ ret.val.fpsRaw = arg[5]
        /\ REq(ret.val.duration, stod(arg[6]).val)

\* the invocations of the split, upscale and assemble stages
AfterProbe(c) == c.kind \in {"extractAudio", "extractFrames", "upscale", "assemble"}

\* C13: if the probed width or height is not a positive integer, the run
\* aborts with exit code 1 before the split stage: audio extraction, frame
\* extraction, upscale and assembly are never invoked.  The code never looks
\* at the probed dimensions, so this is violated.
C13_BadDimensionsAbort ==
    \A i \in CallIds :
        ( /\ calls[i].kind = "probe"
          /\ calls[i].exit = 0
          /\ probeVideo(0, calls[i].out).ok
          /\ \/ probeVideo(0, calls[i].out).val.width <= 0
             \/ probeVideo(0, calls[i].out).val.height <= 0 ) =>
            /\ pc = "done"
            /\ exitCode = 1
            /\ \A j \in CallIds : ~AfterProbe(calls[j])

\* C14: at the moment the audio extraction is invoked the workspace directory
\* already exists, whatever the starting filesystem.  The code creates the
\* workspace only in extractFrames, after the audio extraction, so this is
\* violated from a filesystem without workspace.
C14_WorkspaceBeforeSplit ==
    (\E i \in CallIds : calls[i].kind = "extractAudio") => workspace

\* the output holds a line with at least one character
HasNonEmptyLine(out) == \E k \in 1..Len(out) : out[k] # LF

\* C15: GPU detection succeeds if and only if the GPU query exits with status
\* zero and its output contains at least one non-empty line; otherwise the
\* run aborts.  The code tests only whether the output is empty, so an output
\* made of one empty line passes: this is violated.
C15_GpuDetection ==
    \A i \in CallIds :
        (calls[i].kind = "gpu" /\ calls[i].exit # -1) =>
            IF calls[i].exit = 0 /\ HasNonEmptyLine(calls[i].out)
            THEN errMsg.what # "No NVIDIA GPU detected"
            ELSE /\ pc = "done"
                 /\ exitCode = 1
                 /\ errMsg.what = "No NVIDIA GPU detected"
                 /\ Len(calls) = 1

\* C16: in every progress report the total equals the metadata totalFrames
\* when that is positive, and otherwise the number of frame files enumerated
\* in the frames directory.
C16_ProgressTotal ==
    \A i \in 1..Len(progress) :
        progress[i].total = IF metadata.totalFrames > 0 THEN metadata.totalFrames
                            ELSE Cardinality(framesRaw)

\* a report was made with a positive metadata total that differs from the
\* number of enumerated files
C16_Witness ==
    /\ Len(progress) >= 1
    /\ metadata.totalFrames > 0
    /\ metadata.totalFrames # Cardinality(framesRaw)

\* a frame-rate field of the form n/0
ZeroDenominatorField(field) ==
    LET p == Find(field, "/") IN
        /\ p > 0
        /\ stod(SubSeq(field, 1, p - 1)).ok
        /\ stod(SubSeq(field, p + 1, Len(field))).ok
        /\ stod(SubSeq(field, p + 1, Len(field))).val[1] = 0

C18_NoFramesAborts ==
    (Succeeded("extractFrames", 0) /\ framesRaw = {} /\ pc # "upscale") =>
        /\ pc = "done"
        /\ exitCode = 1
        /\ errMsg.what = "No frames found to upscale."
        /\ \A j \in CallIds : calls[j].kind \notin {"upscale", "assemble"}
        /\ progress = <<>>

\* the frame extraction exited zero and left an empty frames directory; the
\* run has ended
C18_Witness ==
    /\ Succeeded("extractFrames", 0)
    /\ framesRaw = {}
    /\ pc = "done"
    /\ calls[Len(calls)].kind = "extractFrames"

\* C19: in every progress report 1 <= completed <= total, whatever the
\* metadata totalFrames and the number of enumerated frames.  The total is
\* the metadata totalFrames when positive while completed counts the
\* enumerated files, so a probe that reports fewer frames than were extracted
\* violates this, even in a frames directory holding this run's frames only.
C19_ProgressWithinTotal ==
    (framesRaw = 1..input.frames) =>
        \A i \in 1..Len(progress) :
            /\ 1 <= progress[i].completed
            /\ progress[i].completed <= progress[i].total

\* the frames passed to the upscaler so far
UpscaledArgs == {calls[j].arg : j \in {k \in CallIds : calls[k].kind = "upscale"}}

\* C20: in a successful run, from any starting workspace, the frames passed
\* to the upscaler and the upscaled frames present when the assembly is
\* invoked are exactly the frames extracted from the input in this run.  The
\* code never clears frames_raw or frames_upscaled, so frames left by an
\* earlier run are upscaled and assembled: this is violated.
C20_OnlyThisRunsFrames ==
    (exitCode = 0 /\ Succeeded("assemble", 0)) =>
        /\ UpscaledArgs = 1..input.frames
        /\ framesUp = 1..input.frames

====
